---- MODULE Spec2Model ----
(***************************************************************************)
(* G-code modifier: layer segmentation, support classification, anomaly   *)
(* detection and instruction injection (gcode_modifier.go and its          *)
(* single-edit variant).                                                   *)
(*                                                                         *)
(* A line of the file is a record holding what the code reads from its     *)
(* text: the prefix that classifies it ("kind") and the fields it parses.  *)
(* A numeric token is [ok, v]: ok is FALSE for text that strconv rejects.  *)
(* Signals are sums of planar distances; the inputs used here have         *)
(* integer distances, so float64 arithmetic on them is exact except for   *)
(* the division, which is kept as a fraction (or +Inf / NaN).              *)
(***************************************************************************)
EXTENDS Integers, Sequences, FiniteSets, TLC

VARIABLES tracker, file, lines, pc, layerCount, mapLayerLines, mapSupportOnlyLayers,
          probLayers, defaultTemp, maxFanSpeed, loopIdx, outputLines,
          mode, layerNumber, value

vars == <<tracker, file, lines, pc, layerCount, mapLayerLines, mapSupportOnlyLayers,
          probLayers, defaultTemp, maxFanSpeed, loopIdx, outputLines,
          mode, layerNumber, value>>

-----------------------------------------------------------------------------
(* Program constants *)

PERIM_PCT_CHG_UPPER == -50
PERIM_PCT_CHG_LOWER == -95
MIN_PROB_LAYER == 20
FAN_SPEED_PCT_PROB_LAYERS == 1
TEMP_INCREASE_PROB_LAYERS == 20
MIN_CUR_PERIM == 80

-----------------------------------------------------------------------------
(* Lines *)

Num(n) == [ok |-> TRUE, v |-> n]
BadNum == [ok |-> FALSE, v |-> 0]

\* "; layer num/total_layer_count: n/..."
LayerLine(n) == [kind |-> "layer", num |-> n]
\* "G1 X<x> Y<y>"
G1XY(p) == [kind |-> "G1", hasX |-> TRUE, x |-> Num(p[1]), hasY |-> TRUE, y |-> Num(p[2])]
\* "G1 X<x> E.." : a move without a Y field
G1X(p) == [kind |-> "G1", hasX |-> TRUE, x |-> Num(p[1]), hasY |-> FALSE, y |-> BadNum]
\* "G1 Y<y> E.." : a move without an X field
G1Y(p) == [kind |-> "G1", hasX |-> FALSE, x |-> BadNum, hasY |-> TRUE, y |-> Num(p[2])]
\* "; FEATURE: <name>"
FeatureLine(name) == [kind |-> "feature", name |-> name]
\* "; nozzle_temperature = <t>" and "; fan_max_speed = <t>"
NozzleTempLine(t) == [kind |-> "nozzle_temperature", val |-> t]
FanMaxLine(t) == [kind |-> "fan_max_speed", val |-> t]
\* any other line ("M107", "G28", a blank line)
OtherLine == [kind |-> "other"]

\* fmt.Sprintf("M104 S%d ; Set hotend temperature to %d°C at layer %d\n", ...)
TemperatureLine(temperature, layer) ==
    [kind |-> "M104", S |-> temperature, shown |-> temperature, layer |-> layer]
\* fmt.Sprintf("M106 S%d ; Set fan speed to %d%% at layer %d\n", ...)
FanLine(fanSpeedValue, fanSpeedPercent, layer) ==
    [kind |-> "M106", S |-> fanSpeedValue, shown |-> fanSpeedPercent, layer |-> layer]

\* strconv.ParseFloat / strconv.Atoi with the error dropped: 0 on bad text
ParseFloat(t) == IF t.ok THEN t.v ELSE 0
Atoi(t) == IF t.ok THEN t.v ELSE 0

\* the feature names whose text contains "Support"
ContainsSupport(name) == name \in {"Support", "Support interface", "Support transition"}

detectLayerChange(line) == line.kind = "layer"

\* strings.HasPrefix(line, "G1")
isG1(line) == line.kind = "G1"

-----------------------------------------------------------------------------
(* Go maps: a function on the keys present; a missing key reads as FALSE *)

EmptyMap == << >>
MapPut(m, k, v) == (k :> v) @@ m
MapGetBool(m, k) == IF k \in DOMAIN m THEN m[k] ELSE FALSE

-----------------------------------------------------------------------------
(* Arithmetic *)

RECURSIVE SqrtSearch(_, _, _)
SqrtSearch(n, lo, hi) ==
    IF lo >= hi THEN lo
    ELSE LET mid == (lo + hi + 1) \div 2
         IN  IF mid * mid <= n THEN SqrtSearch(n, mid, hi)
             ELSE SqrtSearch(n, lo, mid - 1)

\* math.Sqrt on the perfect squares the inputs produce
Sqrt(n) == SqrtSearch(n, 0, 2048)

calculateDistance(x1, y1, x2, y2) ==
    Sqrt((x2 - x1) * (x2 - x1) + (y2 - y1) * (y2 - y1))

\* int(f) of a float64 n/d with d > 0: truncation toward zero
TruncDiv(n, d) == IF n >= 0 THEN n \div d ELSE -((-n) \div d)

-----------------------------------------------------------------------------
(* Loops over the lines.  Each loop of the code is a scan that carries the  *)
(* loop's local variables in a record st and applies the loop body to one   *)
(* line after another.  Reached(st) is always TRUE: it makes the state      *)
(* after a line a value before the scan moves to the next line, so that a   *)
(* long file is walked line by line instead of as one nested expression.    *)

Reached(st) == st.currentLayer = st.currentLayer

-----------------------------------------------------------------------------
(* Scalars read from the file *)

RECURSIVE firstOfKind(_, _, _)
firstOfKind(ls, kind, i) ==
    IF i > Len(ls) THEN 0
    ELSE IF ls[i].kind = kind THEN Atoi(ls[i].val)
    ELSE firstOfKind(ls, kind, i + 1)

getDefaultTemp(ls) == firstOfKind(ls, "nozzle_temperature", 1)

getMaxFanSpeed(ls) == firstOfKind(ls, "fan_max_speed", 1)

RECURSIVE countFrom(_, _)
countFrom(ls, i) ==
    IF i > Len(ls) THEN 0
    ELSE (IF detectLayerChange(ls[i]) THEN 1 ELSE 0) + countFrom(ls, i + 1)

countLayers(ls) == countFrom(ls, 1)

-----------------------------------------------------------------------------
(* getMapOfSupportLayers *)

supportStep(st, line) ==
    IF detectLayerChange(line)
    THEN LET m1 == IF st.hasOtherFeature
                   THEN MapPut(st.m, st.currentLayer, FALSE)
                   ELSE st.m
         IN  [m |-> MapPut(m1, st.currentLayer + 1, FALSE),
              currentLayer |-> st.currentLayer + 1,
              hasOtherFeature |-> FALSE]
    ELSE IF line.kind = "feature" /\ ~ContainsSupport(line.name)
    THEN [st EXCEPT !.hasOtherFeature = TRUE]
    ELSE IF line = FeatureLine("Support")
    THEN [st EXCEPT !.m = MapPut(st.m, st.currentLayer, TRUE)]
    ELSE st

RECURSIVE supportScan(_, _, _)
supportScan(ls, i, st) ==
    IF i > Len(ls) THEN st
    ELSE LET after == supportStep(st, ls[i])
         IN  IF Reached(after) THEN supportScan(ls, i + 1, after) ELSE after

getMapOfSupportLayers(ls) ==
    supportScan(ls, 1, [m |-> EmptyMap, currentLayer |-> 0,
                        hasOtherFeature |-> FALSE]).m

-----------------------------------------------------------------------------
(* getMapOfLayerStartLines: offsets are 0-based, so line i (1-based here)   *)
(* has offset i - 1 and the recorded value i + 1 of the code is i here      *)

startLinesStep(st, line, i) ==
    IF detectLayerChange(line)
    THEN [m |-> IF st.currentLayer + 1 > 0
                THEN MapPut(st.m, st.currentLayer + 1, (i - 1) + 1)
                ELSE st.m,
          currentLayer |-> st.currentLayer + 1]
    ELSE st

RECURSIVE startLinesScan(_, _, _)
startLinesScan(ls, i, st) ==
    IF i > Len(ls) THEN st
    ELSE LET after == startLinesStep(st, ls[i], i)
         IN  IF Reached(after) THEN startLinesScan(ls, i + 1, after) ELSE after

getMapOfLayerStartLines(ls) ==
    startLinesScan(ls, 1, [m |-> EmptyMap, currentLayer |-> 0]).m

-----------------------------------------------------------------------------
(* modifyGcodeTemperature, modifyGcodeFanSpeed *)

\* variant: every boundary from the target on gets the line
atOrPastTargetLayer(currentLayer, target) == currentLayer >= target

\* the test that decides whether the synthesized line follows this boundary
atTargetLayer(currentLayer, target) == currentLayer = target

injectStep(st, line, target, synth) ==
    LET appended == Append(st.modifiedLines, line)
    IN  IF detectLayerChange(line)
        THEN [modifiedLines |->
                  IF atTargetLayer(st.currentLayer + 1, target)
                  THEN Append(appended, synth)
                  ELSE appended,
              currentLayer |-> st.currentLayer + 1]
        ELSE [st EXCEPT !.modifiedLines = appended]

RECURSIVE injectScan(_, _, _, _, _)
injectScan(ls, i, st, target, synth) ==
    IF i > Len(ls) THEN st
    ELSE LET after == injectStep(st, ls[i], target, synth)
         IN  IF Reached(after) THEN injectScan(ls, i + 1, after, target, synth)
             ELSE after

injectAt(ls, target, synth) ==
    injectScan(ls, 1, [modifiedLines |-> << >>, currentLayer |-> -1],
               target, synth).modifiedLines

modifyGcodeTemperature(ls, layer, temperature) ==
    injectAt(ls, layer, TemperatureLine(temperature, layer))

\* variant: rounding to nearest instead of truncating
fanSpeedValueRounded(fanSpeedPercent) == TruncDiv(fanSpeedPercent * 255 + 50, 100)

\* int(float64(fanSpeedPercent) / 100.0 * 255): the float64 product lies
\* within rounding error of percent * 255 / 100, whose distance to the next
\* integer is 0 or at least 1/20, so the conversion yields the exact
\* quotient truncated toward zero
fanSpeedValue(fanSpeedPercent) == TruncDiv(fanSpeedPercent * 255, 100)

modifyGcodeFanSpeed(ls, layer, fanSpeedPercent) ==
    injectAt(ls, layer, FanLine(fanSpeedValue(fanSpeedPercent), fanSpeedPercent, layer))

-----------------------------------------------------------------------------
(* detectProblematicLayers *)

\* absolutePerimeterChange / previousPerimeterLength * 100 in float64: a
\* fraction n/d with d > 0, or the IEEE result of dividing by zero
perimeterPercentageChange(cur, prev) ==
    IF prev # 0 THEN [cls |-> "num", n |-> (cur - prev) * 100, d |-> prev]
    ELSE IF cur - prev > 0 THEN [cls |-> "+Inf", n |-> 0, d |-> 1]
    ELSE IF cur - prev < 0 THEN [cls |-> "-Inf", n |-> 0, d |-> 1]
    ELSE [cls |-> "NaN", n |-> 0, d |-> 1]

\* f < c and f > c for a float f as above and an integer c; NaN compares false
FloatLess(f, c) == (f.cls = "-Inf") \/ (f.cls = "num" /\ f.n < c * f.d)
FloatGreater(f, c) == (f.cls = "+Inf") \/ (f.cls = "num" /\ f.n > c * f.d)

\* variant: the upper bound taken inclusively (a drop of exactly 50% passes)
sharpDropInclusive(cur, prev) ==
    LET pct == perimeterPercentageChange(cur, prev)
    IN  /\ ~FloatGreater(pct, PERIM_PCT_CHG_UPPER) /\ pct.cls # "NaN"
        /\ FloatGreater(pct, PERIM_PCT_CHG_LOWER)
        /\ cur > MIN_CUR_PERIM

\* the test on the signal drop
sharpDrop(cur, prev) ==
    LET pct == perimeterPercentageChange(cur, prev)
    IN  /\ FloatLess(pct, PERIM_PCT_CHG_UPPER)
        /\ FloatGreater(pct, PERIM_PCT_CHG_LOWER)
        /\ cur > MIN_CUR_PERIM

\* variant: layer MIN_PROB_LAYER itself is let through
reportableFromMinLayer(currentLayer, supportOnly) ==
    currentLayer >= MIN_PROB_LAYER /\ ~MapGetBool(supportOnly, currentLayer)

\* "Only add non-support layers and layers above MIN_PROB_LAYER"
reportable(currentLayer, supportOnly) ==
    currentLayer > MIN_PROB_LAYER /\ ~MapGetBool(supportOnly, currentLayer)

\* variant: a layer without signal does not replace the previous signal
finalizedPerimeterSkippingEmpty(cur, prev) == IF cur = 0 THEN prev ELSE cur

\* "Reset values for the new layer": the new previousPerimeterLength
finalizedPerimeter(cur, prev) == cur

\* variant: a boundary line also clears the extruding flag, so that every
\* layer starts its signal at its own first point
detectStepRestartingAtBoundary(st, line, supportOnly) ==
    IF detectLayerChange(line)
    THEN LET n == st.currentLayer + 1
             flagged == /\ n > 1
                        /\ sharpDrop(st.currentPerimeterLength,
                                     st.previousPerimeterLength)
                        /\ reportable(n, supportOnly)
         IN  [st EXCEPT
                !.currentLayer = n,
                !.problematicLayers = IF flagged THEN Append(@, n) ELSE @,
                !.previousPerimeterLength =
                    finalizedPerimeter(st.currentPerimeterLength, @),
                !.currentPerimeterLength = 0,
                !.extruding = FALSE]
    ELSE IF isG1(line)
    THEN LET x == IF line.hasX THEN ParseFloat(line.x) ELSE 0
             y == IF line.hasY THEN ParseFloat(line.y) ELSE 0
         IN  IF line.hasX /\ line.hasY
             THEN [st EXCEPT
                     !.currentPerimeterLength =
                         IF st.extruding
                         THEN @ + calculateDistance(st.lastX, st.lastY, x, y)
                         ELSE @,
                     !.extruding = TRUE,
                     !.lastX = x,
                     !.lastY = y]
             ELSE st
    ELSE st

detectStep(st, line, supportOnly) ==
    IF detectLayerChange(line)
    THEN LET n == st.currentLayer + 1
             flagged == /\ n > 1
                        /\ sharpDrop(st.currentPerimeterLength,
                                     st.previousPerimeterLength)
                        /\ reportable(n, supportOnly)
         IN  [st EXCEPT
                !.currentLayer = n,
                !.problematicLayers = IF flagged THEN Append(@, n) ELSE @,
                !.previousPerimeterLength =
                    finalizedPerimeter(st.currentPerimeterLength, @),
                !.currentPerimeterLength = 0]
    ELSE IF isG1(line)
    THEN LET x == IF line.hasX THEN ParseFloat(line.x) ELSE 0
             y == IF line.hasY THEN ParseFloat(line.y) ELSE 0
         IN  IF line.hasX /\ line.hasY
             THEN [st EXCEPT
                     !.currentPerimeterLength =
                         IF st.extruding
                         THEN @ + calculateDistance(st.lastX, st.lastY, x, y)
                         ELSE @,
                     !.extruding = TRUE,
                     !.lastX = x,
                     !.lastY = y]
             ELSE st
    ELSE st

detectInit ==
    [currentLayer |-> -1, previousPerimeterLength |-> 0,
     currentPerimeterLength |-> 0, problematicLayers |-> << >>,
     lastX |-> 0, lastY |-> 0, extruding |-> FALSE]

RECURSIVE detectScan(_, _, _, _)
detectScan(ls, i, st, supportOnly) ==
    IF i > Len(ls) THEN st
    ELSE LET after == detectStep(st, ls[i], supportOnly)
         IN  IF Reached(after) THEN detectScan(ls, i + 1, after, supportOnly)
             ELSE after

\* reads the global mapSupportOnlyLayers, passed here as supportOnly
detectProblematicLayers(ls, supportOnly) ==
    detectScan(ls, 1, detectInit, supportOnly).problematicLayers

-----------------------------------------------------------------------------
(* Input files.  A file is a preamble followed by the bodies of layers 0..n, *)
(* separated by the n boundary lines.                                        *)

MaxShortLayers == 2
ManyLayers == 25
WindowSize == 6
MaxOver == 3
MaxLayerArg == 4
MaxTrackLines == 5

Home == <<0, 0>>
P20 == <<12, 16>>
P50 == <<30, 40>>
P100 == <<60, 80>>
P125 == <<75, 100>>
P1000 == <<600, 800>>

\* out to p and back: adds 2 * |p| to the signal when entered at Home
Loop(p) == <<G1XY(p), G1XY(Home)>>

RECURSIVE Assemble(_, _)
Assemble(bodies, k) ==
    IF k = 1 THEN bodies[1]
    ELSE Assemble(bodies, k - 1) \o <<LayerLine(k - 1)>> \o bodies[k]

FileOf(meta, bodies) == meta \o Assemble(bodies, Len(bodies))

NoMeta == << >>
Meta200 == <<NozzleTempLine(Num(200)), FanMaxLine(Num(100))>>
MetaBad == <<FanMaxLine(BadNum), NozzleTempLine(Num(200)), NozzleTempLine(Num(210))>>

ShortBodies ==
    { << >>, <<OtherLine>>, <<FeatureLine("Support")>>,
      <<FeatureLine("Outer wall")>>,
      <<FeatureLine("Support"), FeatureLine("Outer wall")>>,
      <<FeatureLine("Outer wall"), FeatureLine("Support")>>,
      Loop(P50), <<G1X(P50), G1XY(P100)>> }

ShortFiles ==
    { FileOf(meta, bodies) :
        meta \in {NoMeta, MetaBad},
        bodies \in UNION { [1..k -> ShortBodies] : k \in 1..(MaxShortLayers + 1) } }

BaseBodies == { Loop(P50), Loop(P100), Loop(P125), Loop(P1000) }

DevBodies ==
    { << >>, Loop(P20), Loop(P50), Loop(P100),
      <<FeatureLine("Support")>> \o Loop(P50),
      <<FeatureLine("Support"), FeatureLine("Outer wall")>> \o Loop(P50) }

Window == (ManyLayers - WindowSize)..ManyLayers

\* ManyLayers layers with the same body, except at most two layers of the window
LongFiles ==
    { FileOf(Meta200,
             [k \in 1..(ManyLayers + 1) |->
                 IF k - 1 = d1 THEN b1 ELSE IF k - 1 = d2 THEN b2 ELSE base]) :
        base \in BaseBodies, d1 \in Window, d2 \in Window,
        b1 \in DevBodies, b2 \in DevBodies }

\* two deviating layers five apart: the restoring lines of the first
\* (layer + 2) and the corrective lines of the second (layer - 3) go to the
\* same boundary
FiveApartFiles ==
    { FileOf(Meta200,
             [k \in 1..(ManyLayers + 5) |->
                 IF k - 1 = ManyLayers - 4 THEN b1
                 ELSE IF k - 1 = ManyLayers + 1 THEN b2 ELSE base]) :
        base \in BaseBodies, b1 \in DevBodies, b2 \in DevBodies }

EditBodies == { << >>, <<OtherLine>>, Loop(P50) }

EditFiles ==
    { FileOf(NoMeta, bodies) :
        bodies \in UNION { [1..k -> EditBodies] : k \in 1..(MaxShortLayers + 1) } }

LayerArgs == (-1)..MaxLayerArg
FanPercents == (0 - MaxOver)..(100 + MaxOver)
Temperatures == {0, 210}

-----------------------------------------------------------------------------
(* State machine *)

\* no line read yet by the signal tracker
NoLine == [kind |-> "none"]

TrackerInit == [before |-> detectInit, line |-> NoLine, st |-> detectInit, n |-> 0]

InitCommon ==
    /\ tracker = TrackerInit
    /\ lines = file
    /\ pc = "start"
    /\ layerCount = 0
    /\ mapLayerLines = EmptyMap
    /\ mapSupportOnlyLayers = EmptyMap
    /\ probLayers = << >>
    /\ defaultTemp = 0
    /\ maxFanSpeed = 0
    /\ loopIdx = 0
    /\ outputLines = << >>

\* gcode_modifier.go: processFile after the file has been read
Init ==
    /\ file \in ShortFiles \cup LongFiles \cup FiveApartFiles
    /\ mode = "auto"
    /\ layerNumber = 0
    /\ value = 0
    /\ InitCommon

\* the single-edit variant: main after flag parsing and reading the file
InitEdit ==
    /\ file \in EditFiles
    /\ mode \in {"temp", "fan", "analyze"}
    /\ layerNumber \in LayerArgs
    /\ value \in FanPercents \cup Temperatures
    /\ mode = "temp" => value \in Temperatures
    /\ mode = "fan" => value \in FanPercents
    /\ mode = "analyze" => (value = 0 /\ layerNumber = 0)
    /\ InitCommon

CountLayers ==
    /\ pc = "start"
    /\ layerCount' = countLayers(lines)
    /\ pc' = "counted"
    /\ UNCHANGED <<tracker, file, lines, mapLayerLines, mapSupportOnlyLayers, probLayers,
                   defaultTemp, maxFanSpeed, loopIdx, outputLines, mode,
                   layerNumber, value>>

GetMapOfLayerStartLines ==
    /\ pc = "counted"
    /\ mapLayerLines' = getMapOfLayerStartLines(lines)
    /\ pc' = "mapped"
    /\ UNCHANGED <<tracker, file, lines, layerCount, mapSupportOnlyLayers, probLayers,
                   defaultTemp, maxFanSpeed, loopIdx, outputLines, mode,
                   layerNumber, value>>

GetMapOfSupportLayers ==
    /\ pc = "mapped"
    /\ mapSupportOnlyLayers' = getMapOfSupportLayers(lines)
    /\ pc' = "classified"
    /\ UNCHANGED <<tracker, file, lines, layerCount, mapLayerLines, probLayers,
                   defaultTemp, maxFanSpeed, loopIdx, outputLines, mode,
                   layerNumber, value>>

DetectProblematicLayers ==
    /\ pc = "classified"
    /\ mode = "auto"
    /\ probLayers' = detectProblematicLayers(lines, mapSupportOnlyLayers)
    /\ pc' = "detected"
    /\ UNCHANGED <<tracker, file, lines, layerCount, mapLayerLines, mapSupportOnlyLayers,
                   defaultTemp, maxFanSpeed, loopIdx, outputLines, mode,
                   layerNumber, value>>

GetDefaults ==
    /\ pc = "detected"
    /\ defaultTemp' = getDefaultTemp(lines)
    /\ maxFanSpeed' = getMaxFanSpeed(lines)
    /\ loopIdx' = 1
    /\ pc' = IF Len(probLayers) >= 1 THEN "fanDown" ELSE "save"
    /\ UNCHANGED <<tracker, file, lines, layerCount, mapLayerLines, mapSupportOnlyLayers,
                   probLayers, outputLines, mode, layerNumber, value>>

LoopFrame == <<tracker, file, layerCount, mapLayerLines, mapSupportOnlyLayers, probLayers,
               defaultTemp, maxFanSpeed, outputLines, mode, layerNumber, value>>

FanDown ==
    /\ pc = "fanDown"
    /\ lines' = modifyGcodeFanSpeed(lines, probLayers[loopIdx] - 3,
                                    FAN_SPEED_PCT_PROB_LAYERS)
    /\ pc' = "tempUp"
    /\ UNCHANGED <<LoopFrame, loopIdx>>

TempUp ==
    /\ pc = "tempUp"
    /\ lines' = modifyGcodeTemperature(lines, probLayers[loopIdx] - 3,
                                       defaultTemp + TEMP_INCREASE_PROB_LAYERS)
    /\ pc' = "fanRestore"
    /\ UNCHANGED <<LoopFrame, loopIdx>>

\* variant: the fan is restored one layer later than the temperature
FanRestoreOneLayerLate ==
    /\ pc = "fanRestore"
    /\ lines' = modifyGcodeFanSpeed(lines, probLayers[loopIdx] + 3, maxFanSpeed)
    /\ pc' = "tempRestore"
    /\ UNCHANGED <<LoopFrame, loopIdx>>

FanRestore ==
    /\ pc = "fanRestore"
    /\ lines' = modifyGcodeFanSpeed(lines, probLayers[loopIdx] + 2, maxFanSpeed)
    /\ pc' = "tempRestore"
    /\ UNCHANGED <<LoopFrame, loopIdx>>

TempRestore ==
    /\ pc = "tempRestore"
    /\ lines' = modifyGcodeTemperature(lines, probLayers[loopIdx] + 2, defaultTemp)
    /\ loopIdx' = loopIdx + 1
    /\ pc' = IF loopIdx < Len(probLayers) THEN "fanDown" ELSE "save"
    /\ UNCHANGED LoopFrame

Save ==
    /\ pc = "save"
    /\ outputLines' = lines
    /\ pc' = "done"
    /\ UNCHANGED <<tracker, file, lines, layerCount, mapLayerLines, mapSupportOnlyLayers,
                   probLayers, defaultTemp, maxFanSpeed, loopIdx, mode,
                   layerNumber, value>>

EditFrame == <<tracker, file, lines, layerCount, mapLayerLines, mapSupportOnlyLayers,
               defaultTemp, maxFanSpeed, loopIdx, mode, layerNumber, value>>

ModeTemp ==
    /\ pc = "classified"
    /\ mode = "temp"
    /\ outputLines' = modifyGcodeTemperature(lines, layerNumber, value)
    /\ pc' = "done"
    /\ UNCHANGED <<EditFrame, probLayers>>

ModeFan ==
    /\ pc = "classified"
    /\ mode = "fan"
    /\ outputLines' = modifyGcodeFanSpeed(lines, layerNumber, value)
    /\ pc' = "done"
    /\ UNCHANGED <<EditFrame, probLayers>>

ModeAnalyze ==
    /\ pc = "classified"
    /\ mode = "analyze"
    /\ probLayers' = detectProblematicLayers(lines, mapSupportOnlyLayers)
    /\ pc' = "done"
    /\ UNCHANGED <<EditFrame, outputLines>>

\* detectProblematicLayers called on its own, one iteration of its loop at
\* a time: st holds the loop's locals after the n-th line, line is that
\* line and before holds the locals the iteration started from
InitTrack ==
    /\ file = << >>
    /\ mode = "analyze"
    /\ layerNumber = 0
    /\ value = 0
    /\ InitCommon

TrackLines ==
    { LayerLine(1), G1XY(Home), G1XY(P50), G1XY(P100), G1X(P50), G1Y(P50),
      [kind |-> "G1", hasX |-> FALSE, x |-> BadNum, hasY |-> FALSE, y |-> BadNum],
      FeatureLine("Support"), OtherLine }

TrackLine ==
    /\ tracker.n < MaxTrackLines
    /\ \E line \in TrackLines :
          tracker' = [before |-> tracker.st,
                      line |-> line,
                      st |-> detectStep(tracker.st, line, mapSupportOnlyLayers),
                      n |-> tracker.n + 1]
    /\ UNCHANGED <<file, lines, pc, layerCount, mapLayerLines, mapSupportOnlyLayers,
                   probLayers, defaultTemp, maxFanSpeed, loopIdx, outputLines,
                   mode, layerNumber, value>>

NextTrack == TrackLine

SpecTrack == InitTrack /\ [][NextTrack]_vars

Next ==
    \/ CountLayers
    \/ GetMapOfLayerStartLines
    \/ GetMapOfSupportLayers
    \/ DetectProblematicLayers
    \/ GetDefaults
    \/ FanDown
    \/ TempUp
    \/ FanRestore
    \/ TempRestore
    \/ Save

NextEdit ==
    \/ CountLayers
    \/ GetMapOfLayerStartLines
    \/ GetMapOfSupportLayers
    \/ ModeTemp
    \/ ModeFan
    \/ ModeAnalyze

Spec == Init /\ [][Next]_vars

SpecEdit == InitEdit /\ [][NextEdit]_vars

-----------------------------------------------------------------------------
(* Vocabulary of the properties: layers and their signals, read off the     *)
(* file without the scanners above                                          *)

Range(seq) == { seq[i] : i \in 1..Len(seq) }

BoundarySet(ls) == { i \in 1..Len(ls) : ls[i].kind = "layer" }

\* the positions of the boundary lines, first to last
BoundaryPositions(ls) ==
    SelectSeq([i \in 1..Len(ls) |-> i], LAMBDA i : ls[i].kind = "layer")

IsFullMove(l) == l.kind = "G1" /\ l.hasX /\ l.hasY

\* the moves that carry both coordinates, among lines i..j
MovesIn(ls, i, j) == SelectSeq(SubSeq(ls, i, j), IsFullMove)

\* the last such move among the first i lines, as a sequence of length 0 or 1
RECURSIVE LastMoveBefore(_, _)
LastMoveBefore(ls, i) ==
    IF i < 1 THEN << >>
    ELSE IF IsFullMove(ls[i]) THEN <<ls[i]>>
    ELSE LastMoveBefore(ls, i - 1)

\* length of the path through the given moves
RECURSIVE PathLength(_, _)
PathLength(moves, j) ==
    IF j <= 1 THEN 0
    ELSE PathLength(moves, j - 1)
         + calculateDistance(ParseFloat(moves[j - 1].x), ParseFloat(moves[j - 1].y),
                             ParseFloat(moves[j].x), ParseFloat(moves[j].y))

\* layer k lies between boundary k and boundary k + 1 (file start and end
\* for the first and last layer): its first and last line
LayerFirst(ls, pos, k) == IF k = 0 THEN 1 ELSE pos[k] + 1
LayerLast(ls, pos, k) == IF k = Len(pos) THEN Len(ls) ELSE pos[k + 1] - 1

\* distance travelled inside layer k, from the point reached before it
LayerSignal(ls, pos, k) ==
    LET path == LastMoveBefore(ls, LayerFirst(ls, pos, k) - 1)
                \o MovesIn(ls, LayerFirst(ls, pos, k), LayerLast(ls, pos, k))
    IN  PathLength(path, Len(path))

RECURSIVE SignalsUpTo(_, _, _)
SignalsUpTo(ls, pos, k) ==
    IF k < 0 THEN << >>
    ELSE Append(SignalsUpTo(ls, pos, k - 1), LayerSignal(ls, pos, k))

\* the signals of the layers 0..number of boundaries, in that order
Signals(ls) ==
    LET pos == BoundaryPositions(ls) IN SignalsUpTo(ls, pos, Len(pos))

\* the signal of layer n in such a sequence
Sig(sig, n) == sig[n + 1]

LayerLines(ls, pos, k) == SubSeq(ls, LayerFirst(ls, pos, k), LayerLast(ls, pos, k))

HasSupportTag(body) == \E i \in 1..Len(body) : body[i] = FeatureLine("Support")
HasOtherTag(body) ==
    \E i \in 1..Len(body) : body[i].kind = "feature" /\ body[i].name # "Support"

IsSynth(l) == l.kind \in {"M104", "M106"}

\* the synthesized lines that stand directly after position i
RECURSIVE SynthRun(_, _)
SynthRun(ls, i) ==
    IF i + 1 <= Len(ls) /\ IsSynth(ls[i + 1])
    THEN {ls[i + 1]} \cup SynthRun(ls, i + 1)
    ELSE {}

\* the synthesized lines directly after the k-th boundary line
SynthAfterBoundary(ls, k) == SynthRun(ls, BoundaryPositions(ls)[k])

\* ls with line l put in after position i
InsertAfter(ls, i, l) == SubSeq(ls, 1, i) \o <<l>> \o SubSeq(ls, i + 1, Len(ls))

-----------------------------------------------------------------------------
(* Properties of detectProblematicLayers (specification Spec) *)

IsAscending(seq) == \A i \in 1..(Len(seq) - 1) : seq[i] < seq[i + 1]

\* the drop from prev to cur, as a percentage, lies strictly between the bounds
DropInBand(cur, prev) ==
    /\ prev # 0
    /\ (cur - prev) * 100 < (-50) * prev
    /\ (cur - prev) * 100 > (-95) * prev

\* the layers the rule of the detector selects, given the signals sig
ExpectedLayers(sig, nBoundaries, supportOnly) ==
    { n \in 0..(nBoundaries - 1) :
        /\ n > 1
        /\ DropInBand(Sig(sig, n), Sig(sig, n - 1))
        /\ Sig(sig, n) > 80
        /\ n > 20
        /\ ~(n \in DOMAIN supportOnly /\ supportOnly[n]) }

\* C1: detectProblematicLayers returns, ascending and without duplicates,
\* exactly the layers n whose boundary (the one raising the counter to n)
\* sees n > 1, a percent change strictly between -95 and -50, a current
\* signal above 80, n > 20 and no support-only mark for n.
C1_DetectorReturnsExactlyRuleLayers ==
    pc = "detected" =>
        LET sig == Signals(file)
        IN  /\ IsAscending(probLayers)
            /\ Range(probLayers) =
                   ExpectedLayers(sig, Cardinality(BoundarySet(file)),
                                  mapSupportOnlyLayers)

C1_Witness ==
    /\ pc = "detected"
    /\ Len(probLayers) >= 1
    /\ LET sig == Signals(file)
       IN  \E n \in DOMAIN mapSupportOnlyLayers :
              /\ n > 20
              /\ n < Cardinality(BoundarySet(file))
              /\ mapSupportOnlyLayers[n]
              /\ DropInBand(Sig(sig, n), Sig(sig, n - 1))
              /\ Sig(sig, n) > 80
              /\ n \notin Range(probLayers)

\* a layer above MIN_PROB_LAYER that is not support-only and whose signal
\* is exactly half the previous layer's
ExactHalfDrop(sig, n) == Sig(sig, n - 1) > 0 /\ 2 * Sig(sig, n) = Sig(sig, n - 1)

\* C2 (as claimed): a non-support layer above 20 whose signal is exactly 50%
\* below the previous layer's is in the returned list.
C2_ExactHalfDropFlagged ==
    pc = "detected" =>
        LET sig == Signals(file)
        IN  \A n \in 21..(Cardinality(BoundarySet(file)) - 1) :
                (ExactHalfDrop(sig, n) /\ ~MapGetBool(mapSupportOnlyLayers, n))
                    => n \in Range(probLayers)

\* C2 (amended): a layer whose signal is exactly 50% below the previous
\* layer's is never in the returned list; the drop has to exceed 50%.
C2_ExactHalfDropNotFlagged ==
    pc = "detected" =>
        LET sig == Signals(file)
        IN  \A n \in 1..(Cardinality(BoundarySet(file)) - 1) :
                ExactHalfDrop(sig, n) => n \notin Range(probLayers)

C2_Witness ==
    /\ pc = "detected"
    /\ LET sig == Signals(file)
       IN  \E n \in 21..(Cardinality(BoundarySet(file)) - 1) :
              /\ ExactHalfDrop(sig, n)
              /\ Sig(sig, n) > 80
              /\ ~MapGetBool(mapSupportOnlyLayers, n)
              /\ n \notin Range(probLayers)

\* C9: a layer whose previous layer has signal zero is never added to the
\* list, whatever its own signal, index and classification, and the scan
\* goes on: every later layer the rule selects is still reported.
C9_ZeroPreviousNeverFlagged ==
    pc = "detected" =>
        LET sig == Signals(file)
            nb == Cardinality(BoundarySet(file))
        IN  \A n \in 1..(nb - 1) :
                Sig(sig, n - 1) = 0 =>
                    /\ n \notin Range(probLayers)
                    /\ \A later \in (n + 1)..(nb - 1) :
                          later \in ExpectedLayers(sig, nb, mapSupportOnlyLayers)
                              => later \in Range(probLayers)

C9_Witness ==
    /\ pc = "detected"
    /\ LET sig == Signals(file)
       IN  \E n \in 21..(Cardinality(BoundarySet(file)) - 1) :
              /\ Sig(sig, n - 1) = 0
              /\ Sig(sig, n) > 80
              /\ ~MapGetBool(mapSupportOnlyLayers, n)
              /\ n \notin Range(probLayers)
              /\ \E later \in Range(probLayers) : later > n

-----------------------------------------------------------------------------
(* Properties of the segmenter maps (specification Spec) *)

\* C3 (as claimed): every layer from 1 on, the last one included, is mapped
\* to true exactly if it holds the support tag and no tag of another feature.
C3_SupportOnlyIffOnlySupportTags ==
    pc = "classified" =>
        LET pos == BoundaryPositions(file)
        IN  \A k \in 1..Len(pos) :
                MapGetBool(mapSupportOnlyLayers, k)
                    = (/\ HasSupportTag(LayerLines(file, pos, k))
                       /\ ~HasOtherTag(LayerLines(file, pos, k)))

\* C4 (as claimed): a file without boundary lines yields an empty start-line
\* map, an empty support-only map and an empty list of flagged layers.
C4_NoBoundaryAllEmpty ==
    (pc = "detected" /\ BoundarySet(file) = {}) =>
        /\ DOMAIN mapLayerLines = {}
        /\ DOMAIN mapSupportOnlyLayers = {}
        /\ probLayers = << >>

-----------------------------------------------------------------------------
(* End to end through processFile (specification Spec) *)

\* 25 layers of signal 100, layer 22 of signal 40, temperature 200, fan 100
ScenarioFile ==
    FileOf(Meta200, [k \in 1..26 |-> IF k - 1 = 22 THEN Loop(P20) ELSE Loop(P50)])

\* a drop of exactly 60%
SixtyPercentDrop(sig, n) ==
    Sig(sig, n - 1) > 0 /\ 5 * Sig(sig, n) = 2 * Sig(sig, n - 1)

\* the corrective lines stand after the boundary that raises the counter to
\* n - 3, the restoring lines after the one that raises it to n + 2
CorrectedAround(out, n) ==
    /\ TemperatureLine(220, n - 3) \in SynthAfterBoundary(out, n - 2)
    /\ FanLine(2, 1, n - 3) \in SynthAfterBoundary(out, n - 2)

RestoredAfter(out, n) ==
    /\ TemperatureLine(200, n + 2) \in SynthAfterBoundary(out, n + 3)
    /\ FanLine(255, 100, n + 2) \in SynthAfterBoundary(out, n + 3)

\* C7 (as claimed): in the scenario layer 22 is flagged and the output holds
\* the 220 degree and 1% lines after layer 19 and the 200 degree and 100%
\* (S255) lines after layer 24; in general a non-support layer above 20 with
\* a 60% drop is flagged and gets the four lines.
C7_SixtyPercentDropCorrected ==
    pc = "done" =>
        LET sig == Signals(file)
            nb == Cardinality(BoundarySet(file))
        IN  /\ file = ScenarioFile =>
                /\ 22 \in Range(probLayers)
                /\ CorrectedAround(outputLines, 22)
                /\ RestoredAfter(outputLines, 22)
            /\ \A n \in 21..(nb - 3) :
                  (SixtyPercentDrop(sig, n) /\ ~MapGetBool(mapSupportOnlyLayers, n))
                      => /\ n \in Range(probLayers)
                         /\ CorrectedAround(outputLines, n)
                         /\ RestoredAfter(outputLines, n)

\* C7 (amended): a non-support layer above 20 with a 60% drop is flagged only
\* if its own signal is above 80; it then gets the 1% fan line (S2) and the
\* default+20 temperature line after the boundary raising the counter to
\* n - 3 and, if the file has a boundary raising the counter to n + 2, the
\* maximum fan and default temperature lines after that one.  In the scenario
\* the signal of layer 22 is 40: nothing is flagged and the output is the input.
C7_SixtyPercentDropAboveFloorCorrected ==
    pc = "done" =>
        LET sig == Signals(file)
            nb == Cardinality(BoundarySet(file))
        IN  /\ file = ScenarioFile =>
                (probLayers = << >> /\ outputLines = file)
            /\ \A n \in 21..(nb - 1) :
                  (/\ SixtyPercentDrop(sig, n)
                   /\ Sig(sig, n) > 80
                   /\ ~MapGetBool(mapSupportOnlyLayers, n))
                      => /\ n \in Range(probLayers)
                         /\ CorrectedAround(outputLines, n)
                         /\ (n + 2 <= nb - 1 => RestoredAfter(outputLines, n))

C7_Witness ==
    /\ pc = "done"
    /\ LET sig == Signals(file)
       IN  \E n \in 21..(Cardinality(BoundarySet(file)) - 3) :
              /\ SixtyPercentDrop(sig, n)
              /\ Sig(sig, n) > 80
              /\ ~MapGetBool(mapSupportOnlyLayers, n)
              /\ RestoredAfter(outputLines, n)
              /\ Len(outputLines) = Len(file) + 4

-----------------------------------------------------------------------------
(* Properties of the injectors (specification SpecEdit) *)

Injected == pc = "done" /\ mode \in {"temp", "fan"}

C6_InsertedAfterNthBoundary ==
    (Injected /\ 1 <= layerNumber /\ layerNumber <= layerCount) =>
        \E synth \in Range(outputLines) :
            /\ IsSynth(synth)
            /\ outputLines =
                   InsertAfter(file, BoundaryPositions(file)[layerNumber], synth)
            /\ mapLayerLines[layerNumber] = BoundaryPositions(file)[layerNumber]

\* the line that stands directly after the boundary raising the counter to n
LineAfterCounter(out, ls, n) == out[BoundaryPositions(ls)[n + 1] + 1]

FanInjected ==
    /\ pc = "done"
    /\ mode = "fan"
    /\ 0 <= layerNumber
    /\ layerNumber < layerCount

\* C8: for a percent in 0..100 the fan value written is the percent rescaled
\* to 0..255 and truncated, floor(percent * 255 / 100): 0 gives 0, 50 gives
\* 127, 100 gives 255, and the value never decreases as the percent grows.
C8_FanValueIsTruncatedRescale ==
    /\ (FanInjected /\ 0 <= value /\ value <= 100) =>
          LET l == LineAfterCounter(outputLines, file, layerNumber)
          IN  /\ l.kind = "M106"
              /\ l.S = (value * 255) \div 100
              /\ value = 0 => l.S = 0
              /\ value = 50 => l.S = 127
              /\ value = 100 => l.S = 255
    /\ \A p \in 0..99 : fanSpeedValue(p) <= fanSpeedValue(p + 1)

C8_Witness ==
    /\ FanInjected
    /\ value = 50
    /\ LineAfterCounter(outputLines, file, layerNumber) = FanLine(127, 50, layerNumber)

\* C10 (as claimed): whatever integer percent is passed, the S value of the
\* synthesized M106 line lies in 0..255.
C10_FanValueWithinByte ==
    FanInjected =>
        LET l == LineAfterCounter(outputLines, file, layerNumber)
        IN  l.kind = "M106" /\ l.S >= 0 /\ l.S <= 255

-----------------------------------------------------------------------------
(* Properties of the signal tracker (specification SpecTrack) *)

LacksCoordinate(l) == l.kind = "G1" /\ ~(l.hasX /\ l.hasY)

SamePointAndFlag(a, b) ==
    /\ a.lastX = b.lastX
    /\ a.lastY = b.lastY
    /\ a.extruding = b.extruding

\* C11: a move lacking X or Y, and a line that is neither boundary nor move,
\* leave the running signal, the last point and the extruding flag as they
\* were; a boundary copies the running signal to the previous signal, zeroes
\* it and leaves the last point and the flag alone, so that the next full
\* move adds the distance from the last point of the preceding layer; the
\* first full move of the file adds nothing.
C11_TrackerFrame ==
    tracker.n > 0 =>
        LET b == tracker.before
            a == tracker.st
            l == tracker.line
        IN  /\ (LacksCoordinate(l) \/ l.kind \notin {"layer", "G1"}) =>
                  /\ a.currentPerimeterLength = b.currentPerimeterLength
                  /\ SamePointAndFlag(a, b)
            /\ l.kind = "layer" =>
                  /\ a.previousPerimeterLength = b.currentPerimeterLength
                  /\ a.currentPerimeterLength = 0
                  /\ SamePointAndFlag(a, b)
            /\ (IsFullMove(l) /\ b.extruding) =>
                  LET d == a.currentPerimeterLength - b.currentPerimeterLength
                  IN  /\ d >= 0
                      /\ d * d = (l.x.v - b.lastX) * (l.x.v - b.lastX)
                                 + (l.y.v - b.lastY) * (l.y.v - b.lastY)
            /\ (IsFullMove(l) /\ ~b.extruding) =>
                  a.currentPerimeterLength = b.currentPerimeterLength

\* the first full move of a layer that follows a layer with signal: it adds
\* the distance from the point the preceding layer ended at
C11_Witness ==
    /\ tracker.n > 0
    /\ IsFullMove(tracker.line)
    /\ tracker.before.currentLayer >= 0
    /\ tracker.before.extruding
    /\ tracker.before.previousPerimeterLength > 0
    /\ tracker.before.currentPerimeterLength = 0
    /\ tracker.st.currentPerimeterLength > 0

-----------------------------------------------------------------------------
(* Properties of the orchestration across flagged layers (specification Spec) *)

\* the positions before pos that hold a line of the given kind
KindBefore(ls, pos, kind) == { i \in 1..(pos - 1) : ls[i].kind = kind }

Latest(idx) == CHOOSE i \in idx : \A j \in idx : j <= i

\* the boundary line an injector called with index n inserts after
TargetBoundary(ls, n) == BoundaryPositions(ls)[n + 1]

\* reading from the top, the last fan line and the last temperature line
\* before the boundary targeted by index n are the corrective ones
CorrectiveInEffect(out, n) ==
    LET pos == TargetBoundary(out, n)
        fans == KindBefore(out, pos, "M106")
        temps == KindBefore(out, pos, "M104")
    IN  /\ fans # {}
        /\ out[Latest(fans)].shown = FAN_SPEED_PCT_PROB_LAYERS
        /\ temps # {}
        /\ out[Latest(temps)].S = defaultTemp + TEMP_INCREASE_PROB_LAYERS

\* C12 (as claimed): in the saved output, for every flagged layer the last
\* synthesized fan line and the last synthesized temperature line before the
\* boundary targeted by that layer's index are fan 1% and default + 20, never
\* the restoring lines of another flagged layer; also for two flagged layers
\* five apart.
C12_CorrectiveInEffectAtEveryFlaggedLayer ==
    pc = "done" =>
        \A i \in 1..Len(probLayers) : CorrectiveInEffect(outputLines, probLayers[i])

=============================================================================
